---- MODULE Spec2Model ----
(***************************************************************************)
(* A model of StudyMate (OussAmaX5ra/ncs): the keyword-overlap chunk index *)
(* (ai_services/indexer.py), the Gemini client's retry loop                *)
(* (ai_services/llm_client.py), and the document/authentication handlers   *)
(* built on them (ai_services/document_analyser.py, routes/*.py, auth.py). *)
(*                                                                         *)
(* Python strings that the code splits, strips and lower-cases are         *)
(* sequences of tokens: a word of the vocabulary, or " " for a run of      *)
(* whitespace.  Identifiers that the code only compares are TLA+ strings.  *)
(***************************************************************************)
EXTENDS Integers, Sequences, FiniteSets, TLC

VARIABLES
    index,        \* DocumentIndexer.index: documents and chunks (in memory)
    index_file,   \* the contents of document_index.json
    last,         \* the last call of the specification at hand and what it returned
    llm_client,   \* LLMClient: request_count and total_tokens
    gen,          \* the running generate_content call: its loop and its outcome
    db,           \* the database: the users and files tables
    uploads,      \* the files written to the uploads directory
    analyzer_ok,  \* whether DocumentAnalyzer() finds its LLM client
    sessions,     \* SessionMiddleware.sessions
    web,          \* the token API (app/): its users table and the browsers' sessions
    vector_store, \* VectorStore: chunks, embeddings, and the saved index file
    requests      \* the POST /signup requests in flight, one per worker process

idxVars == <<index, index_file>>
llmVars == <<llm_client, gen>>
appVars == <<db, uploads, analyzer_ok, sessions>>
svcVars == <<web, vector_store, requests>>
vars == <<index, index_file, last, llm_client, gen, db, uploads, analyzer_ok, sessions,
          web, vector_store, requests>>

(***************************************************************************)
(* Bounds of the model.                                                    *)
(***************************************************************************)
MaxIndexed == 3      \* chunks held by the index at once
MaxRequests == 3     \* generate_content is not called again past this request_count
MaxUsers == 2        \* users ever signed up
MaxFiles == 2        \* File rows ever inserted
MaxSessions == 2     \* sessions ever stored by the middleware
MaxStates == 2      \* state values ever drawn by google_login
MaxTopK == 3        \* the largest top_k asked of query_chunks
MaxWorkers == 2     \* worker processes serving requests on one database
MaxRows == 3         \* rows ever inserted in the tables below users

(***************************************************************************)
(* Strings.                                                                *)
(***************************************************************************)
Vocabulary == {"cat", "Cat", "dog", "ox", "fish"}

\* len(word) for the words of the vocabulary
WordLen(w) == IF w = "ox" THEN 2 ELSE IF w = "fish" THEN 4 ELSE 3

\* str.lower()
Lower(w) == IF w = "Cat" THEN "cat" ELSE w

RECURSIVE LStrip(_)
LStrip(s) == IF s # <<>> /\ Head(s) = " " THEN LStrip(Tail(s)) ELSE s

RECURSIVE RStrip(_)
RStrip(s) ==
    IF s # <<>> /\ s[Len(s)] = " " THEN RStrip(SubSeq(s, 1, Len(s) - 1)) ELSE s

\* str.strip()
Strip(s) == RStrip(LStrip(s))

\* str.split(): the words between the runs of whitespace
Split(s) == SelectSeq(s, LAMBDA t : t # " ")

\* set(word.lower() for word in text.split() if len(word) > 2)
WordSet(s) ==
    {Lower(Split(s)[i]) : i \in {j \in 1..Len(Split(s)) : WordLen(Split(s)[j]) > 2}}

\* a Python value whose type the callee does not check: a str or a list
PyStr(s) == [t |-> "str", v |-> s]
PyList(l) == [t |-> "list", v |-> l]
Falsy(x) == IF x.t = "str" THEN x.v = "" ELSE x.v = <<>>

NoneVal == "<None>"

(***************************************************************************)
(* DocumentIndexer (ai_services/indexer.py).  index.chunks is a Python     *)
(* dict, kept as the sequence of its entries in insertion order;           *)
(* index.documents is a dict that is never iterated, kept as a function.   *)
(***************************************************************************)
EmptyIndex == [documents |-> <<>>, chunks |-> <<>>]

\* hashlib.md5(content).hexdigest()[:8]: distinct on the texts of the model
ContentHash(content) == <<"md5", content>>

_generate_chunk_id(content, document_id, chunk_index) ==
    <<document_id, chunk_index, ContentHash(content)>>

\* d[key] = value on a dict kept in insertion order
DictSet(entries, e) ==
    IF \E i \in 1..Len(entries) : entries[i].chunk_id = e.chunk_id
    THEN [i \in 1..Len(entries) |->
            IF entries[i].chunk_id = e.chunk_id THEN e ELSE entries[i]]
    ELSE Append(entries, e)

\* del d[key] for each key of ids that is present
DictDel(entries, ids) ==
    SelectSeq(entries, LAMBDA e : \A i \in 1..Len(ids) : ids[i] # e.chunk_id)

\* the loop of index_chunks over enumerate(chunks), from position i on
RECURSIVE IndexLoop(_, _, _, _)
IndexLoop(idx, chunks, document_id, i) ==
    IF i > Len(chunks) THEN idx
    ELSE IF Strip(chunks[i]) = <<>>
    THEN IndexLoop(idx, chunks, document_id, i + 1)
    ELSE LET chunk_id == _generate_chunk_id(chunks[i], document_id, i - 1)
             entry == [chunk_id |-> chunk_id,
                       content |-> Strip(chunks[i]),
                       document_id |-> document_id,
                       chunk_index |-> i - 1]
             doc == idx.documents[document_id]
         IN IndexLoop(
              [documents |-> [idx.documents EXCEPT ![document_id] =
                                [doc EXCEPT !.chunk_ids = Append(@, chunk_id)]],
               chunks |-> DictSet(idx.chunks, entry)],
              chunks, document_id, i + 1)

\* DocumentIndexer.index_chunks(chunks, document_id): the index afterwards and
\* the value returned.  Neither argument's type is checked: a list given as
\* document_id cannot be a dict key (TypeError, caught, False).
index_chunks(idx, chunks, document_id) ==
    IF Falsy(chunks) \/ Falsy(document_id)
    THEN [index |-> idx, ret |-> FALSE]
    ELSE IF document_id.t # "str" \/ chunks.t # "list"
    THEN [index |-> idx, ret |-> FALSE]
    ELSE LET d == document_id.v
             fresh == [chunk_count |-> Len(chunks.v), chunk_ids |-> <<>>]
             docs == [k \in DOMAIN idx.documents \cup {d} |->
                        IF k = d THEN fresh ELSE idx.documents[k]]
         IN [index |-> IndexLoop([documents |-> docs, chunks |-> idx.chunks],
                                 chunks.v, d, 1),
             ret |-> TRUE]

\* score a / b against c / d
ScoreGe(x, y) == x.num * y.den >= y.num * x.den
ScoreGt(x, y) == x.num * y.den > y.num * x.den

\* list.sort(key=score, reverse=True): stable, highest score first
RECURSIVE InsertByScore(_, _)
InsertByScore(x, sorted) ==
    IF sorted = <<>> THEN <<x>>
    ELSE IF ScoreGt(Head(sorted).score, x.score)
    THEN <<Head(sorted)>> \o InsertByScore(x, Tail(sorted))
    ELSE <<x>> \o sorted

\* the same sort without reverse=True: lowest score first
RECURSIVE SortByScoreAsc(_)
SortByScoreAsc(s) ==
    IF s = <<>> THEN <<>>
    ELSE LET rest == SortByScoreAsc(Tail(s))
             before == SelectSeq(rest, LAMBDA y : ScoreGt(Head(s).score, y.score))
             after == SelectSeq(rest, LAMBDA y : ~ScoreGt(Head(s).score, y.score))
         IN before \o <<Head(s)>> \o after

RECURSIVE SortByScoreDesc(_)
SortByScoreDesc(s) ==
    IF s = <<>> THEN <<>> ELSE InsertByScore(Head(s), SortByScoreDesc(Tail(s)))

\* seq[:limit]
SliceTo(s, limit) ==
    IF limit >= 0
    THEN SubSeq(s, 1, IF limit < Len(s) THEN limit ELSE Len(s))
    ELSE SubSeq(s, 1, IF Len(s) + limit > 0 THEN Len(s) + limit ELSE 0)

\* the mutant of ScoredChunks: the score is divided by the number of the
\* chunk's words, not of the query's
ScoredChunksByContent(idx, query_words, document_id) ==
    LET passes(e) ==
            /\ ~(document_id # NoneVal /\ document_id # ""
                    /\ e.document_id # document_id)
            /\ query_words \cap WordSet(e.content) # {}
        scored(e) ==
            [chunk_id |-> e.chunk_id,
             content |-> e.content,
             document_id |-> e.document_id,
             score |-> [num |-> Cardinality(query_words \cap WordSet(e.content)),
                        den |-> Cardinality(WordSet(e.content))],
             chunk_index |-> e.chunk_index]
        kept == SelectSeq(idx.chunks, passes)
    IN [i \in 1..Len(kept) |-> scored(kept[i])]

\* the chunks search_chunks scores: those passing the document filter that
\* share a word with the query, in dict order
ScoredChunks(idx, query_words, document_id) ==
    LET passes(e) ==
            /\ ~(document_id # NoneVal /\ document_id # ""
                    /\ e.document_id # document_id)
            /\ query_words \cap WordSet(e.content) # {}
        scored(e) ==
            [chunk_id |-> e.chunk_id,
             content |-> e.content,
             document_id |-> e.document_id,
             score |-> [num |-> Cardinality(query_words \cap WordSet(e.content)),
                        den |-> Cardinality(query_words)],
             chunk_index |-> e.chunk_index]
        kept == SelectSeq(idx.chunks, passes)
    IN [i \in 1..Len(kept) |-> scored(kept[i])]

\* DocumentIndexer.search_chunks(query, document_id, limit)
search_chunks(idx, query, document_id, limit) ==
    IF query = <<>> THEN <<>>
    ELSE IF WordSet(query) = {} THEN <<>>
    ELSE SliceTo(SortByScoreDesc(ScoredChunks(idx, WordSet(query), document_id)),
                 limit)

\* DocumentIndexer.get_document_chunks(document_id)
get_document_chunks(idx, document_id) ==
    IF document_id \notin DOMAIN idx.documents THEN <<>>
    ELSE LET ids == idx.documents[document_id].chunk_ids
             present == SelectSeq(ids,
                 LAMBDA c : \E i \in 1..Len(idx.chunks) : idx.chunks[i].chunk_id = c)
             contentOf(c) ==
                 (CHOOSE e \in {idx.chunks[i] : i \in 1..Len(idx.chunks)} :
                     e.chunk_id = c).content
         IN [i \in 1..Len(present) |-> contentOf(present[i])]

\* DocumentIndexer.remove_document(document_id)
remove_document(idx, document_id) ==
    IF document_id \notin DOMAIN idx.documents
    THEN [index |-> idx, ret |-> FALSE]
    ELSE [index |->
            [documents |-> [k \in DOMAIN idx.documents \ {document_id} |->
                              idx.documents[k]],
             chunks |-> DictDel(idx.chunks, idx.documents[document_id].chunk_ids)],
          ret |-> TRUE]

(***************************************************************************)
(* The indexer's operations as actions.                                    *)
(***************************************************************************)
T_cat == <<"ox", " ", "cat">>
T_catdog == <<"Cat", " ", "dog">>
T_dog == <<" ", "dog", " ">>
T_blank == <<" ">>

DocIds == {"d1", "d2"}
ChunkLists ==
    {<<>>, <<T_cat>>, <<T_catdog, T_dog>>, <<T_blank, T_cat>>, <<T_dog, T_catdog>>}
Queries == {<<>>, <<"ox">>, <<"cat", " ", "dog">>, <<"fish", " ", "Cat">>}
DocFilters == {"d1", "", NoneVal}
Limits == {0, 1, 2}

InitLLMVars ==
    /\ llm_client = [request_count |-> 0, total_tokens |-> 0]
    /\ gen = [pc |-> "idle"]

EmptyDb ==
    [users |-> <<>>, files |-> <<>>, users_made |-> 0, files_made |-> 0,
     rows |-> {}, rows_made |-> 0]

\* an empty database, no upload, no session; the LLM client is configured
\* request.session of the token API: one signed cookie per browser
Browsers == {"b1", "b2"}
EmptySession == [google_oauth_state |-> NoneVal, google_oauth_nonce |-> NoneVal,
                 access_token |-> <<>>, user_id |-> NoneVal]
EmptyWeb == [users |-> <<>>, users_made |-> 0,
             session |-> [b \in Browsers |-> EmptySession], states_made |-> 0]
\* VectorStore.__init__ before load_index, where neither the index file nor
\* learning_context.txt nor data/roadmaps exists
EmptyStore == [chunks |-> <<>>, embeddings |-> <<>>, loaded |-> FALSE,
               file |-> [exists |-> FALSE, chunks |-> <<>>, embeddings |-> <<>>],
               context |-> [exists |-> FALSE, len |-> 0],
               roadmaps |-> [isdir |-> FALSE, items |-> <<>>]]

\* the worker processes, each handling one request at a time
WorkerIds == <<"p1", "p2", "p3">>
IdleRequest == [pc |-> "idle", username |-> NoneVal, email |-> NoneVal,
                password |-> NoneVal, response |-> NoneVal]
NoRequests == [w \in {WorkerIds[i] : i \in 1..Len(WorkerIds)} |-> IdleRequest]

InitAppVars ==
    /\ requests = NoRequests
    /\ web = EmptyWeb
    /\ vector_store = EmptyStore
    /\ db = EmptyDb
    /\ uploads = {}
    /\ analyzer_ok = TRUE
    /\ sessions = <<>>

InitIdx ==
    /\ index = EmptyIndex
    /\ index_file = EmptyIndex
    /\ last = [op |-> "none"]
    /\ InitLLMVars
    /\ InitAppVars

IndexChunks(chunks, document_id) ==
    LET r == index_chunks(index, PyList(chunks), PyStr(document_id))
    IN /\ Len(r.index.chunks) <= MaxIndexed
       /\ index' = r.index
       /\ index_file' = IF r.ret THEN r.index ELSE index_file
       /\ last' = [op |-> "index_chunks", chunks |-> chunks,
                   document_id |-> document_id, ret |-> r.ret]
       /\ UNCHANGED <<llmVars, appVars, svcVars>>

RemoveDocument(document_id) ==
    LET r == remove_document(index, document_id)
    IN /\ index' = r.index
       /\ index_file' = IF r.ret THEN r.index ELSE index_file
       /\ last' = [op |-> "remove_document", document_id |-> document_id,
                   ret |-> r.ret]
       /\ UNCHANGED <<llmVars, appVars, svcVars>>

SearchChunks(query, document_id, limit) ==
    /\ last' = [op |-> "search_chunks", query |-> query,
                document_id |-> document_id, limit |-> limit,
                ret |-> search_chunks(index, query, document_id, limit)]
    /\ UNCHANGED <<idxVars, llmVars, appVars, svcVars>>

GetDocumentChunks(document_id) ==
    /\ last' = [op |-> "get_document_chunks", document_id |-> document_id,
                ret |-> get_document_chunks(index, document_id)]
    /\ UNCHANGED <<idxVars, llmVars, appVars, svcVars>>

\* a restart of the process: DocumentIndexer() loads the saved index
LoadIndex ==
    /\ index' = index_file
    /\ last' = [op |-> "_load_index"]
    /\ UNCHANGED <<index_file, llmVars, appVars, svcVars>>

NextIdx ==
    \/ \E c \in ChunkLists, d \in DocIds \cup {""} : IndexChunks(c, d)
    \/ \E d \in DocIds \cup {""} : RemoveDocument(d)
    \/ \E q \in Queries, d \in DocFilters, l \in Limits : SearchChunks(q, d, l)
    \/ \E d \in DocIds : GetDocumentChunks(d)
    \/ LoadIndex

SpecIdx == InitIdx /\ [][NextIdx]_vars

(***************************************************************************)
(* LLMClient.generate_content (ai_services/llm_client.py): one action per  *)
(* pass of its retry loop.  What the hosted model answers is the input of  *)
(* a pass: the call raises, the response has no candidate, its first       *)
(* candidate has no part (a blocked answer: parts[0] raises IndexError),   *)
(* or the first part holds a text.                                         *)
(***************************************************************************)
\* one more attempt than the code makes
max_retries_four == 3 + 1

max_retries == 3
retry_delay == 1

ModelOutcomes == {"raise", "no_candidates", "no_parts", "text"}
ModelTexts == {<<>>, <<"cat">>, <<"cat", " ", "dog">>}

RECURSIVE Pow2(_)
Pow2(n) == IF n = 0 THEN 1 ELSE 2 * Pow2(n - 1)

\* a backoff that does not grow
BackoffConstant(attempt) == retry_delay

\* retry_delay * (2 ** attempt)
Backoff(attempt) == retry_delay * Pow2(attempt)

\* a retry test that is off by one
ShouldRetryAlways(attempt) == attempt < max_retries

\* attempt < max_retries - 1
ShouldRetry(attempt) == attempt < max_retries - 1

\* response.candidates is non-empty and candidates[0].content.parts[0].text is read
GotText(outcome) == outcome = "text"

\* len(text_response.split()) * 1.3, in tenths of a token
EstimatedTokens(text) == Len(Split(text)) * 13

\* a call of generate_content(prompt)
GenerateContentCall ==
    /\ gen.pc # "loop"
    /\ llm_client.request_count < MaxRequests
    /\ gen' = [pc |-> "loop", attempt |-> 0, calls |-> 0, sleeps |-> <<>>,
               outcomes |-> <<>>]
    /\ UNCHANGED <<llm_client, idxVars, last, appVars, svcVars>>

\* one pass of `for attempt in range(max_retries)`
GenerateAttempt(outcome, text) ==
    /\ gen.pc = "loop"
    /\ LET called == [gen EXCEPT
                        !.calls = @ + 1,
                        !.outcomes = Append(@,
                            [o |-> outcome,
                             text |-> IF outcome = "text" THEN text ELSE <<>>])]
           counted == IF outcome = "raise" THEN llm_client
                      ELSE [llm_client EXCEPT !.request_count = @ + 1]
       IN IF GotText(outcome)
          THEN /\ llm_client' = [counted EXCEPT
                                    !.total_tokens = @ + EstimatedTokens(text)]
               /\ gen' = [pc |-> "returned", attempt |-> called.attempt,
                          calls |-> called.calls, sleeps |-> called.sleeps,
                          outcomes |-> called.outcomes,
                          result |-> [kind |-> "text", text |-> text]]
          ELSE /\ llm_client' = counted
               /\ IF ShouldRetry(gen.attempt)
                  THEN LET slept == [called EXCEPT
                                       !.sleeps = Append(@, Backoff(gen.attempt)),
                                       !.attempt = @ + 1]
                       IN gen' = IF slept.attempt < max_retries
                                 THEN slept
                                 ELSE [pc |-> "returned", attempt |-> slept.attempt,
                                       calls |-> slept.calls, sleeps |-> slept.sleeps,
                                       outcomes |-> slept.outcomes,
                                       result |-> [kind |-> "None"]]
                  ELSE gen' = [pc |-> "raised", attempt |-> called.attempt,
                               calls |-> called.calls, sleeps |-> called.sleeps,
                               outcomes |-> called.outcomes,
                               result |-> [kind |-> "Exception",
                                           after |-> max_retries,
                                           cause |-> outcome]]
    /\ UNCHANGED <<idxVars, last, appVars, svcVars>>

InitLLM ==
    /\ InitLLMVars
    /\ InitAppVars
    /\ index = EmptyIndex
    /\ index_file = EmptyIndex
    /\ last = [op |-> "none"]

NextLLM ==
    \/ GenerateContentCall
    \/ \E o \in ModelOutcomes, t \in ModelTexts : GenerateAttempt(o, t)

SpecLLM == InitLLM /\ [][NextLLM]_vars

\* the hosted model answers every call, with a response or with an error
SpecLLMFair ==
    SpecLLM /\ WF_vars(\E o \in ModelOutcomes, t \in ModelTexts : GenerateAttempt(o, t))

(***************************************************************************)
(* Claims about generate_content, checked under SpecLLM and SpecLLMFair.   *)
(***************************************************************************)
FailedPasses == {i \in 1..Len(gen.outcomes) : gen.outcomes[i].o # "text"}

\* C5 as stated: at most 3 calls to the model per invocation, and no further
\* call once a pass has produced a response with at least one candidate; the
\* text returned is that of the first such pass.
C5_NoCallAfterCandidate ==
    gen.pc # "idle" =>
        /\ gen.calls <= 3
        /\ \A i \in 1..(Len(gen.outcomes) - 1) :
              gen.outcomes[i].o \notin {"text", "no_parts"}
        /\ gen.pc = "returned" =>
              gen.result = [kind |-> "text",
                            text |-> gen.outcomes[Len(gen.outcomes)].text]

\* C5 as amended: at most 3 calls to the model per invocation, one per pass,
\* and no further call once a pass has read the text of the response's first
\* candidate; generate_content returns exactly when a pass did, with that
\* text.  A response whose first candidate has no part is retried.
C5_NoCallAfterText ==
    gen.pc # "idle" =>
        /\ gen.calls <= 3
        /\ gen.calls = Len(gen.outcomes)
        /\ \A i \in 1..(Len(gen.outcomes) - 1) : gen.outcomes[i].o # "text"
        /\ (gen.outcomes # <<>> /\ gen.outcomes[Len(gen.outcomes)].o = "text")
              <=> gen.pc = "returned"
        /\ gen.pc = "returned" =>
              gen.result = [kind |-> "text",
                            text |-> gen.outcomes[Len(gen.outcomes)].text]

\* a call that was answered by a candidate without parts, retried, and then
\* returned the text of the second pass
C5_Witness ==
    /\ gen.pc = "returned"
    /\ gen.calls = 2
    /\ gen.outcomes[1].o = "no_parts"
    /\ gen.result = [kind |-> "text", text |-> <<"cat", " ", "dog">>]

\* C6: after the failed pass number n (n = 0, 1) generate_content waits
\* retry_delay * 2^n seconds, 1 then 2, strictly increasing, and it does not
\* wait after the third failed pass.
C6_ExponentialBackoff ==
    gen.pc # "idle" =>
        /\ Len(gen.sleeps) =
              IF Cardinality(FailedPasses) < 2 THEN Cardinality(FailedPasses) ELSE 2
        /\ gen.sleeps \in {<<>>, <<1>>, <<1, 2>>}
        /\ \A i, j \in 1..Len(gen.sleeps) : i < j => gen.sleeps[i] < gen.sleeps[j]
        /\ gen.pc = "loop" => Len(gen.sleeps) = Cardinality(FailedPasses)
        /\ gen.pc = "raised" => Cardinality(FailedPasses) = 3 /\ gen.sleeps = <<1, 2>>

\* three failed passes: two waits, none after the third
C6_Witness ==
    /\ gen.pc = "raised"
    /\ gen.calls = 3
    /\ gen.sleeps = <<1, 2>>

\* what generate_content has produced once it is over
C7_Outcome ==
    /\ gen.pc = "returned" => gen.result.kind = "text"
    /\ gen.pc = "raised" =>
          /\ gen.result.kind = "Exception"
          /\ gen.result.after = 3
          /\ gen.calls = 3
          /\ Cardinality(FailedPasses) = 3
    /\ (gen.pc # "idle" /\ Cardinality(FailedPasses) = 3) => gen.pc = "raised"

\* C7: generate_content always terminates, with a text or with an exception:
\* when all 3 passes fail it raises "Failed to generate content after 3
\* attempts", and it never returns None.
C7_TerminatesWithTextOrException ==
    /\ []C7_Outcome
    /\ (gen.pc = "loop") ~> (gen.pc \in {"returned", "raised"})

\* all three passes failed, the last with a response without candidates
C7_Witness ==
    /\ gen.pc = "raised"
    /\ gen.result = [kind |-> "Exception", after |-> 3, cause |-> "no_candidates"]
    /\ \A i \in 1..3 : gen.outcomes[i].o # "text"

(***************************************************************************)
(* Claims about the indexer, checked under SpecIdx.                        *)
(***************************************************************************)
ChunksOf(idx, d) == SelectSeq(idx.chunks, LAMBDA e : e.document_id = d)

\* C1: once remove_document(d) has returned True the index holds no chunk
\* whose document_id is d, so search_chunks(q, document_id=d) and
\* get_document_chunks(d) are empty, whatever was indexed before.
C1_RemoveLeavesNoChunk ==
    (last.op = "remove_document" /\ last.ret) =>
        /\ ChunksOf(index, last.document_id) = <<>>
        /\ get_document_chunks(index, last.document_id) = <<>>
        /\ \A q \in Queries : search_chunks(index, q, last.document_id, 5) = <<>>

\* the chunks of the index that match a query under a document filter, as the
\* claim defines them: score > 0 and passing the filter
Matching(idx, query, document_id) ==
    {e \in {idx.chunks[i] : i \in 1..Len(idx.chunks)} :
        /\ (document_id \in {NoneVal, ""} \/ e.document_id = document_id)
        /\ WordSet(query) \cap WordSet(e.content) # {}}

Overlap(query, e) == Cardinality(WordSet(query) \cap WordSet(e.content))

\* C4: for limit >= 0 search_chunks returns at most limit entries, ordered by
\* non-increasing score; no matching chunk that was left out scores strictly
\* higher than a returned one; with fewer than limit matches all are returned.
C4_SearchReturnsTopK ==
    (last.op = "search_chunks" /\ last.limit >= 0) =>
        LET ret == last.ret
            all == Matching(index, last.query, last.document_id)
            returned == {ret[i].chunk_id : i \in 1..Len(ret)}
        IN /\ Len(ret) <= last.limit
           /\ \A i \in 1..Len(ret) : \E e \in all :
                /\ e.chunk_id = ret[i].chunk_id
                /\ e.content = ret[i].content
                /\ ret[i].score.num = Overlap(last.query, e)
           /\ \A i, j \in 1..Len(ret) : i < j => ScoreGe(ret[i].score, ret[j].score)
           /\ \A e \in all : e.chunk_id \notin returned =>
                \A i \in 1..Len(ret) : Overlap(last.query, e) <= ret[i].score.num
           /\ Cardinality(returned) = Len(ret)
           /\ Cardinality(all) < last.limit => Cardinality(returned) = Cardinality(all)
           /\ Cardinality(all) >= last.limit => Len(ret) = last.limit

\* a search that had to reorder and to cut: more matches than limit, and a
\* lower-scoring chunk stored before a higher-scoring one
C4_Witness ==
    /\ last.op = "search_chunks"
    /\ last.limit >= 1
    /\ Len(last.ret) = last.limit
    /\ Cardinality(Matching(index, last.query, last.document_id)) > last.limit
    /\ \E i, j \in 1..Len(index.chunks) :
        /\ i < j
        /\ {index.chunks[i], index.chunks[j]}
              \subseteq Matching(index, last.query, last.document_id)
        /\ Overlap(last.query, index.chunks[i]) < Overlap(last.query, index.chunks[j])

(***************************************************************************)
(* The database (models.py) and the DocumentAnalyzer                       *)
(* (ai_services/document_analyser.py).  A UUID is named by its canonical   *)
(* text, which is what str() gives; "{f1}" is another text of the UUID f1. *)
(* The text of an upload is a sequence of sentences, each one word closed  *)
(* by a full stop, and runs of whitespace.                                 *)
(***************************************************************************)
UserUuids == <<"u1", "u2", "u3", "u4">>
FileUuids == <<"f1", "f2", "f3", "f4">>

\* the cast of a text to a uuid: uuid.UUID(text) and the database's
UuidParse(text) ==
    IF text = "{f1}" THEN "f1"
    ELSE IF text = "{u1}" THEN "u1"
    ELSE IF \E i \in DOMAIN UserUuids : text = UserUuids[i] THEN text
    ELSE IF \E i \in DOMAIN FileUuids : text = FileUuids[i] THEN text
    ELSE "ValueError"

Put(f, k, v) == [x \in DOMAIN f \cup {k} |-> IF x = k THEN v ELSE f[x]]
Drop(f, ks) == [x \in DOMAIN f \ ks |-> f[x]]

\* the columns of File, and the keyword arguments add_document gives File(...)
FileColumns == {"id", "user_id", "filename", "file_path", "created_at"}
AddDocumentFileKwargs ==
    {"user_id", "filename", "content_type", "word_count", "summary",
     "key_points", "qa_cards", "status"}

\* the methods of InputValidator and of DocumentAnalyzer
InputValidatorMethods == {"validate_file", "sanitize_text"}
DocumentAnalyzerMethods ==
    {"add_document", "get_document", "list_documents", "delete_document",
     "chat_with_document"}

\* the parameters of PromptTemplates.get_chat_prompt
ChatPromptParams == {"question", "context", "document_summary"}

\* sentence + "." as one word
Dotted(t) == IF t = "S300" THEN "S300." ELSE IF t = "S60" THEN "S60." ELSE "S10."

\* len() of a token and of a text
CharLen(t) ==
    IF t = " " THEN 1
    ELSE IF t \in {"S300", "S300."} THEN (IF t = "S300" THEN 300 ELSE 301)
    ELSE IF t \in {"S60", "S60."} THEN (IF t = "S60" THEN 60 ELSE 61)
    ELSE IF t \in {"S10", "S10."} THEN (IF t = "S10" THEN 10 ELSE 11)
    ELSE WordLen(t)

RECURSIVE TextLen(_)
TextLen(s) == IF s = <<>> THEN 0 ELSE CharLen(Head(s)) + TextLen(Tail(s))

chunk_size == 500
min_chunk_chars == 50

\* re.split(r'[.!?]+', content), each piece stripped and the empty ones skipped
Sentences(content) == SelectSeq(content, LAMBDA t : t # " ")

\* the loop of _create_chunks over the sentences, and the flush after it
RECURSIVE ChunkLoop(_, _, _)
ChunkLoop(sentences, current_chunk, chunks) ==
    LET flushed == IF Strip(current_chunk) # <<>>
                   THEN Append(chunks, Strip(current_chunk)) ELSE chunks
    IN IF sentences = <<>> THEN flushed
       ELSE LET sentence == Head(sentences)
            IN IF TextLen(current_chunk) + CharLen(sentence) < chunk_size
               THEN ChunkLoop(Tail(sentences),
                              current_chunk \o <<Dotted(sentence), " ">>, chunks)
               ELSE ChunkLoop(Tail(sentences), <<Dotted(sentence), " ">>, flushed)

\* DocumentAnalyzer._create_chunks(content), the definition of line 213 (it
\* replaces the one of line 135)
_create_chunks(content) ==
    IF content = <<>> THEN <<>>
    ELSE SelectSeq(ChunkLoop(Sentences(content), <<>>, <<>>),
                   LAMBDA chunk : TextLen(chunk) > min_chunk_chars)

\* get_document without the filter on user_id
get_document_any_owner(d, user_id, document_id) ==
    LET id == UuidParse(document_id)
    IN IF id = "ValueError" THEN [kind |-> "DataError"]
       ELSE IF id \in DOMAIN d.files THEN [kind |-> "File", id |-> id]
       ELSE [kind |-> "None"]

\* DocumentAnalyzer.get_document(db, user_id, document_id)
get_document(d, user_id, document_id) ==
    LET id == UuidParse(document_id)
    IN IF id = "ValueError" THEN [kind |-> "DataError"]
       ELSE IF id \in DOMAIN d.files /\ d.files[id].user_id = user_id
       THEN [kind |-> "File", id |-> id]
       ELSE [kind |-> "None"]

\* DocumentAnalyzer.add_document(db, user_id, filename, content_type,
\* text_content): the database and the index afterwards, and the File
\* returned or the exception raised.  llm is what generate_content gives the
\* summary, key-points and Q&A prompts: "fail" (it raises), "empty" ("") or
\* "text" (a non-empty str).
add_document(d, idx, ok, user_id, filename, content_type, text_content, llm) ==
    LET cleaned_content == Strip(text_content)
        chunks == _create_chunks(cleaned_content)
        id == FileUuids[d.files_made + 1]
        raise(e) == [db |-> d, index |-> idx, ret |-> [kind |-> e]]
    IN IF ~ok THEN raise("ConnectionError")
       ELSE IF "validate_text_content" \notin InputValidatorMethods
       THEN raise("AttributeError")
       ELSE IF "validate_filename" \notin InputValidatorMethods
       THEN raise("AttributeError")
       ELSE IF cleaned_content = <<>> THEN raise("ValueError")
       ELSE IF llm = "fail" THEN raise("Exception")
       ELSE IF llm = "text" THEN raise("AttributeError")
       ELSE IF ~(AddDocumentFileKwargs \subseteq FileColumns) THEN raise("TypeError")
       ELSE IF "file_path" \notin AddDocumentFileKwargs THEN raise("IntegrityError")
       ELSE [db |-> [d EXCEPT !.files = Put(@, id, [user_id |-> user_id,
                                                    filename |-> filename,
                                                    file_path |-> <<>>]),
                              !.files_made = @ + 1],
             index |-> IF chunks # <<>>
                       THEN index_chunks(idx, PyStr(id), PyList(chunks)).index
                       ELSE idx,
             ret |-> [kind |-> "File", id |-> id]]

\* DocumentAnalyzer.delete_document(db, user_id, document_id)
delete_document(d, idx, user_id, document_id) ==
    LET doc_to_delete == get_document(d, user_id, document_id)
    IN IF doc_to_delete.kind = "File"
       THEN [db |-> [d EXCEPT !.files = Drop(@, {doc_to_delete.id})],
             index |-> remove_document(idx, document_id).index,
             ret |-> [kind |-> "True"]]
       ELSE [db |-> d, index |-> idx,
             ret |-> [kind |-> IF doc_to_delete.kind = "None" THEN "False"
                               ELSE doc_to_delete.kind]]

\* DocumentAnalyzer.chat_with_document(db, user_id, document_id, query): what
\* it returns or raises, whether it searched the index and whether it called
\* the LLM
chat_with_document(d, idx, ok, user_id, document_id, query) ==
    LET document == get_document(d, user_id, document_id)
        search_results == search_chunks(idx, Strip(query), document.id, 5)
        out(e, searched) ==
            [ret |-> [kind |-> e], index_queried |-> searched, llm_called |-> FALSE]
    IN IF ~ok THEN out("ConnectionError", FALSE)
       ELSE IF document.kind = "DataError" THEN out("DataError", FALSE)
       ELSE IF document.kind = "None" THEN out("ValueError", FALSE)
       ELSE IF search_results = <<>> /\ "summary" \notin FileColumns
       THEN out("AttributeError", TRUE)
       ELSE IF ~({"doc_content", "user_query", "chat_history"} \subseteq ChatPromptParams)
       THEN out("TypeError", TRUE)
       ELSE [ret |-> [kind |-> "dict"], index_queried |-> TRUE, llm_called |-> TRUE]

(***************************************************************************)
(* The handlers of routes/ai_routes.py, routes/main_routes.py and          *)
(* routes/auth_routes.py.                                                  *)
(***************************************************************************)
PDF == "application/pdf"
DOCX == "application/vnd.openxmlformats-officedocument.wordprocessingml.document"
PLAIN == "text/plain"

\* the text analyze_file extracts from the upload, or the exception raised
\* in extracting it; readable: the PDF or DOCX parses, the text file is UTF-8
ExtractText(content_type, text, readable) ==
    IF content_type \in {PDF, DOCX}
    THEN IF ~readable \/ text = <<>> THEN [kind |-> "IOError"]
         ELSE [kind |-> "text", text |-> text]
    ELSE IF content_type = PLAIN
    THEN IF ~readable THEN [kind |-> "UnicodeDecodeError"]
         ELSE [kind |-> "text", text |-> text]
    ELSE [kind |-> "HTTPException"]

\* the except clauses of analyze_file: (ValueError, IOError) gives 400, and
\* so do their subclasses UnicodeDecodeError and ConnectionError; any other
\* exception, the HTTPException raised inside the try among them, gives 500
AnalyzeFileStatus(e) ==
    IF e \in {"ValueError", "UnicodeDecodeError", "IOError", "ConnectionError"}
    THEN 400 ELSE 500

\* analyze_file(file, db, current_user)
analyze_file(d, idx, ok, current_user, filename, content_type, text, readable, llm) ==
    LET extracted == ExtractText(content_type, text, readable)
        added == add_document(d, idx, ok, current_user, filename, content_type,
                              extracted.text, llm)
        stop(e) == [db |-> d, index |-> idx, ret |-> [kind |-> "not called"],
                    status |-> AnalyzeFileStatus(e)]
    IN IF extracted.kind # "text" THEN stop(extracted.kind)
       ELSE IF Strip(extracted.text) = <<>> THEN stop("HTTPException")
       ELSE IF added.ret.kind # "File"
       THEN [db |-> d, index |-> idx, ret |-> added.ret,
             status |-> AnalyzeFileStatus(added.ret.kind)]
       ELSE [db |-> added.db, index |-> added.index, ret |-> added.ret,
             status |-> IF "start_analysis" \in DocumentAnalyzerMethods
                        THEN 200 ELSE AnalyzeFileStatus("AttributeError")]

\* os.path.join("uploads", f"{user.id}_{document.filename}")
UploadPath(user_id, filename) == <<user_id, filename>>

\* document_summarizer_submit(request, document, db) for a logged-in user:
\* the file is written, then the File row is inserted; file_path is unique
document_summarizer_submit(d, up, user_id, filename) ==
    LET file_path == UploadPath(user_id, filename)
        id == FileUuids[d.files_made + 1]
    IN IF \E f \in DOMAIN d.files : d.files[f].file_path = file_path
       THEN [db |-> d, uploads |-> up \cup {file_path}, status |-> 500]
       ELSE [db |-> [d EXCEPT !.files = Put(@, id, [user_id |-> user_id,
                                                    filename |-> filename,
                                                    file_path |-> file_path]),
                              !.files_made = @ + 1],
             uploads |-> up \cup {file_path}, status |-> 302]

\* get_password_hash and verify_password
get_password_hash(password) == <<"bcrypt", password>>
verify_password(plain_password, hashed_password) ==
    hashed_password = <<"bcrypt", plain_password>>

\* handle_signup(username, email, password, confirm_password)
handle_signup(d, username, email, password, confirm_password) ==
    LET id == UserUuids[d.users_made + 1]
    IN IF password # confirm_password THEN [db |-> d, status |-> 200]
       ELSE IF \E u \in DOMAIN d.users : d.users[u].email = email
       THEN [db |-> d, status |-> 200]
       ELSE IF \E u \in DOMAIN d.users : d.users[u].username = username
       THEN [db |-> d, status |-> 200]
       ELSE [db |-> [d EXCEPT !.users = Put(@, id,
                            [username |-> username, email |-> email,
                             password_hash |-> get_password_hash(password),
                             is_active |-> TRUE]),
                        !.users_made = @ + 1],
             status |-> 303]

(***************************************************************************)
(* The document handlers as actions.  A handler runs for current_user, an  *)
(* existing user, as the session resolved it.                              *)
(***************************************************************************)
Usernames == {"alice", "bob"}
Emails == {"a@x.io", "b@x.io"}
Passwords == {"pw1", "pw2"}
Filenames == {"a.txt", "b.txt"}
ContentTypes == {PLAIN, PDF, DOCX, "image/png"}
UploadTexts == {<<>>, <<" ">>, <<"S10", " ">>, <<"S60", " ", "S300", "S300">>}
LlmAnswers == {"fail", "empty", "text"}
DocumentIdTexts == {"f1", "f2", "{f1}", "junk"}
DocChunkLists == {<<T_cat>>}
ChatQueries == {<<"ox">>, <<" ", "fish">>}

EmailOf(username) == IF username = "alice" THEN "a@x.io" ELSE "b@x.io"

InitDocs ==
    /\ index = EmptyIndex
    /\ index_file = EmptyIndex
    /\ last = [op |-> "none"]
    /\ InitLLMVars
    /\ db = EmptyDb
    /\ uploads = {}
    /\ analyzer_ok \in BOOLEAN
    /\ sessions = <<>>
    /\ requests = NoRequests
    /\ web = EmptyWeb
    /\ vector_store = EmptyStore

Signup(username, email, password, confirm_password) ==
    LET r == handle_signup(db, username, email, password, confirm_password)
    IN /\ db.users_made < MaxUsers
       /\ db' = r.db
       /\ last' = [op |-> "handle_signup", username |-> username,
                   status |-> r.status]
       /\ UNCHANGED <<idxVars, llmVars, uploads, analyzer_ok, sessions, svcVars>>

UploadDocument(user_id, filename) ==
    LET r == document_summarizer_submit(db, uploads, user_id, filename)
    IN /\ db.files_made < MaxFiles
       /\ db' = r.db
       /\ uploads' = r.uploads
       /\ last' = [op |-> "document_summarizer_submit", user_id |-> user_id,
                   filename |-> filename, status |-> r.status,
                   duplicate |-> \E f \in DOMAIN db.files :
                                    /\ db.files[f].user_id = user_id
                                    /\ db.files[f].filename = filename]
       /\ UNCHANGED <<idxVars, llmVars, analyzer_ok, sessions, svcVars>>

AnalyzeFile(user_id, filename, content_type, text, readable, llm) ==
    LET r == analyze_file(db, index, analyzer_ok, user_id, filename,
                          content_type, text, readable, llm)
    IN /\ db.files_made < MaxFiles
       /\ db' = r.db
       /\ index' = r.index
       /\ index_file' = IF r.index # index THEN r.index ELSE index_file
       /\ last' = [op |-> "analyze_file", content_type |-> content_type,
                   text |-> text, readable |-> readable, llm |-> llm,
                   ret |-> r.ret, status |-> r.status,
                   files_before |-> DOMAIN db.files, index_before |-> index]
       /\ UNCHANGED <<llmVars, uploads, analyzer_ok, sessions, svcVars>>

GetDocument(user_id, document_id) ==
    /\ last' = [op |-> "get_document", user_id |-> user_id,
                document_id |-> document_id,
                ret |-> get_document(db, user_id, document_id)]
    /\ UNCHANGED <<idxVars, llmVars, appVars, svcVars>>

DeleteDocument(user_id, document_id) ==
    LET r == delete_document(db, index, user_id, document_id)
    IN /\ db' = r.db
       /\ index' = r.index
       /\ index_file' = IF r.index # index THEN r.index ELSE index_file
       /\ last' = [op |-> "delete_document", user_id |-> user_id,
                   document_id |-> document_id, ret |-> r.ret,
                   files_before |-> DOMAIN db.files, index_before |-> index]
       /\ UNCHANGED <<llmVars, uploads, analyzer_ok, sessions, svcVars>>

ChatWithDocument(user_id, document_id, query) ==
    LET r == chat_with_document(db, index, analyzer_ok, user_id, document_id, query)
    IN /\ last' = [op |-> "chat_with_document", user_id |-> user_id,
                   document_id |-> document_id, ret |-> r.ret,
                   index_queried |-> r.index_queried,
                   llm_called |-> r.llm_called]
       /\ UNCHANGED <<idxVars, llmVars, appVars, svcVars>>

\* get_document_details(document_id, db, current_user): the File or None
\* that get_document gives is returned under response_model=DocumentInfo,
\* whose required fields a File lacks (and None has none of them)
GetDocumentDetails(user_id, document_id) ==
    LET doc == get_document(db, user_id, document_id)
        DocumentInfoRequired ==
            {"id", "filename", "content_type", "word_count", "status", "created_at"}
    IN /\ last' = [op |-> "get_document_details", user_id |-> user_id,
                   document_id |-> document_id, found |-> doc.kind = "File",
                   status |-> IF doc.kind = "File"
                                 /\ DocumentInfoRequired \subseteq FileColumns
                              THEN 200 ELSE 500,
                   files_before |-> DOMAIN db.files, index_before |-> index]
       /\ UNCHANGED <<idxVars, llmVars, appVars, svcVars>>

\* delete_analyzed_document(document_id, db, current_user): the bool that
\* delete_document returns is unpacked with ** into DeletionResponse, a
\* TypeError, which `except ValueError` does not catch
DeleteAnalyzedDocument(user_id, document_id) ==
    LET r == delete_document(db, index, user_id, document_id)
    IN /\ db' = r.db
       /\ index' = r.index
       /\ index_file' = IF r.index # index THEN r.index ELSE index_file
       /\ last' = [op |-> "delete_analyzed_document", user_id |-> user_id,
                   document_id |-> document_id,
                   found |-> get_document(db, user_id, document_id).kind = "File",
                   status |-> IF r.ret.kind = "ValueError" THEN 404 ELSE 500,
                   files_before |-> DOMAIN db.files, index_before |-> index]
       /\ UNCHANGED <<llmVars, uploads, analyzer_ok, sessions, svcVars>>

\* chat_with_document(request, db, current_user) of routes/ai_routes.py:
\* ValueError gives 404, any other exception 500
ChatRoute(user_id, document_id, query) ==
    LET r == chat_with_document(db, index, analyzer_ok, user_id, document_id, query)
    IN /\ last' = [op |-> "chat_route", user_id |-> user_id,
                   document_id |-> document_id,
                   found |-> get_document(db, user_id, document_id).kind = "File",
                   status |-> IF r.ret.kind = "dict" THEN 200
                              ELSE IF r.ret.kind = "ValueError" THEN 404 ELSE 500,
                   files_before |-> DOMAIN db.files, index_before |-> index]
       /\ UNCHANGED <<idxVars, llmVars, appVars, svcVars>>

\* what is uploaded to analyze_file, and what the LLM would answer
GoodText == <<"S60", " ", "S300", "S300">>
UploadCases ==
    {<<PLAIN, t, TRUE, "empty">> : t \in UploadTexts}
    \cup {<<PLAIN, GoodText, TRUE, l>> : l \in LlmAnswers}
    \cup {<<c, t, TRUE, "empty">> : c \in {PDF, DOCX}, t \in {<<>>, <<" ">>, GoodText}}
    \cup {<<c, GoodText, FALSE, "empty">> : c \in {PLAIN, PDF, DOCX}}
    \cup {<<"image/png", GoodText, TRUE, "empty">>}

\* uploads and analyses
NextFiles ==
    \/ \E u \in Usernames : Signup(u, EmailOf(u), "pw1", "pw1")
    \/ \E u \in DOMAIN db.users, f \in Filenames : UploadDocument(u, f)
    \/ \E u \in DOMAIN db.users, c \in UploadCases :
          AnalyzeFile(u, "n.txt", c[1], c[2], c[3], c[4])
    \/ \E f \in DOMAIN db.files, c \in DocChunkLists : IndexChunks(c, f)

SpecFiles == InitDocs /\ [][NextFiles]_vars

\* the documents of several users, read and deleted through DocumentAnalyzer
NextDocs ==
    \/ \E u \in Usernames : Signup(u, EmailOf(u), "pw1", "pw1")
    \/ \E u \in DOMAIN db.users : UploadDocument(u, "a.txt")
    \/ \E f \in DOMAIN db.files, c \in DocChunkLists : IndexChunks(c, f)
    \/ \E u \in DOMAIN db.users, d \in DocumentIdTexts : GetDocument(u, d)
    \/ \E u \in DOMAIN db.users, d \in DocumentIdTexts : DeleteDocument(u, d)
    \/ \E u \in DOMAIN db.users, d \in DocumentIdTexts, q \in ChatQueries :
          ChatWithDocument(u, d, q)
    \/ \E u \in DOMAIN db.users, d \in DocumentIdTexts : GetDocumentDetails(u, d)
    \/ \E u \in DOMAIN db.users, d \in DocumentIdTexts : DeleteAnalyzedDocument(u, d)
    \/ \E u \in DOMAIN db.users, d \in DocumentIdTexts, q \in ChatQueries :
          ChatRoute(u, d, q)

SpecDocs == InitDocs /\ [][NextDocs]_vars

RowsNamed(user_id, filename) ==
    {f \in DOMAIN db.files : /\ db.files[f].user_id = user_id
                             /\ db.files[f].filename = filename}

\* C3: uploading a filename that an earlier upload of the same user carries
\* succeeds (the redirect, 302) and leaves two distinct File rows of that
\* user and filename.
C3_DuplicateUploadCreatesRecord ==
    (last.op = "document_summarizer_submit" /\ last.duplicate)
    => /\ last.status = 302
       /\ Cardinality(RowsNamed(last.user_id, last.filename)) >= 2

\* C8: analyze_file answers an unsupported content type with 415 and an
\* extracted text that is empty or only whitespace with 400, and in both
\* cases it creates no File row and leaves the index as it was.
C8_ValidationStatus ==
    last.op = "analyze_file" =>
        LET unsupported == last.content_type \notin {PDF, DOCX, PLAIN}
            blank == /\ ~unsupported
                     /\ last.readable
                     /\ Strip(last.text) = <<>>
        IN /\ unsupported => last.status = 415
           /\ blank => last.status = 400
           /\ (unsupported \/ blank) => /\ DOMAIN db.files = last.files_before
                                        /\ index = last.index_before

\* the texts naming the File f, and f being another user's
TextsOf(f) == {t \in DocumentIdTexts : UuidParse(t) = f}
Foreign(a, f) == db.files[f].user_id # a

\* For every user a and every File f of another user, by whatever text f is
\* named: get_document gives None; chat_with_document raises, ValueError on
\* an initialised analyzer and uninitialised_error otherwise, having
\* queried neither the index nor the LLM; delete_document returns False and
\* changes neither the database nor the index.
OwnershipIsolation(uninitialised_error) ==
    \A a \in DOMAIN db.users, f \in DOMAIN db.files :
        Foreign(a, f) =>
            \A t \in TextsOf(f) :
                /\ get_document(db, a, t) = [kind |-> "None"]
                /\ \A q \in ChatQueries :
                      LET r == chat_with_document(db, index, analyzer_ok, a, t, q)
                      IN /\ r.ret.kind = IF analyzer_ok THEN "ValueError"
                                         ELSE uninitialised_error
                         /\ ~r.index_queried
                         /\ ~r.llm_called
                /\ delete_document(db, index, a, t) =
                       [db |-> db, index |-> index, ret |-> [kind |-> "False"]]

\* a call on the File of another user, which is still there after it
LastOnForeign(op) ==
    /\ last.op = op
    /\ UuidParse(last.document_id) \in DOMAIN db.files
    /\ Foreign(last.user_id, UuidParse(last.document_id))

\* C9 as stated: ownership isolation, chat_with_document raising
\* 'Document not found or access denied' (ValueError) in every case.
C9_IsolationAlwaysNotFound ==
    /\ OwnershipIsolation("ValueError")
    /\ LastOnForeign("chat_with_document") => last.ret.kind = "ValueError"

\* C9, amended: ownership isolation, chat_with_document raising
\* 'Document not found or access denied' on an initialised analyzer and
\* ConnectionError on one whose construction failed; the calls made on
\* another user's File returned accordingly and changed nothing.
C9_OwnershipIsolation ==
    /\ OwnershipIsolation("ConnectionError")
    /\ LastOnForeign("get_document") => last.ret.kind = "None"
    /\ LastOnForeign("chat_with_document") =>
          /\ last.ret.kind = IF analyzer_ok THEN "ValueError" ELSE "ConnectionError"
          /\ ~last.index_queried
          /\ ~last.llm_called
    /\ LastOnForeign("delete_document") =>
          /\ last.ret.kind = "False"
          /\ DOMAIN db.files = last.files_before
          /\ index = last.index_before

\* delete_document was called by a user on another user's File whose chunks
\* are indexed, while the caller has a File of their own
C9_Witness ==
    /\ LastOnForeign("delete_document")
    /\ get_document_chunks(index, UuidParse(last.document_id)) # <<>>
    /\ \E f \in DOMAIN db.files : db.files[f].user_id = last.user_id

(***************************************************************************)
(* Sessions and authentication: SessionMiddleware (middleware.py), the     *)
(* dependencies of auth.py, login and logout (routes/auth_routes.py).  A   *)
(* session dict is a function from its keys.                               *)
(***************************************************************************)
\* secrets.token_urlsafe(32), one after the other
SessionIds == <<"s1", "s2", "s3", "s4">>

\* the session_id cookie a request carries: none, an id the middleware gave
\* out (a token_urlsafe is not guessed beforehand), or one made up
Cookies == {NoneVal, "forged"} \cup DOMAIN sessions

\* dispatch, before call_next: request.state.session
RequestSession(store, session_id) ==
    IF session_id # NoneVal /\ session_id \in DOMAIN store
    THEN store[session_id] ELSE <<>>

\* dispatch, after call_next, when the handler modified the session
StoreSession(store, session_id, session) ==
    IF session_id = NoneVal \/ session_id \notin DOMAIN store
    THEN Put(store, SessionIds[Cardinality(DOMAIN store) + 1], session)
    ELSE Put(store, session_id, session)

\* get_current_user(request, db): the id of the User row, or None
get_current_user(d, session) ==
    LET user_id == IF "user_id" \in DOMAIN session THEN session["user_id"]
                   ELSE NoneVal
    IN IF user_id = NoneVal \/ user_id = "" THEN NoneVal
       ELSE IF UuidParse(user_id) = "ValueError" THEN NoneVal
       ELSE IF UuidParse(user_id) \in DOMAIN d.users THEN UuidParse(user_id)
       ELSE NoneVal

\* get_current_active_user without the check of is_active
get_current_active_user_unchecked(d, current_user) ==
    IF current_user = NoneVal THEN [status |-> 401, user |-> NoneVal]
    ELSE [status |-> 200, user |-> current_user]

\* get_current_active_user(current_user): the HTTPException raised, or the
\* user handed to the route (status 200 standing for the handler running)
get_current_active_user(d, current_user) ==
    IF current_user = NoneVal THEN [status |-> 401, user |-> NoneVal]
    ELSE IF ~d.users[current_user].is_active THEN [status |-> 403, user |-> NoneVal]
    ELSE [status |-> 200, user |-> current_user]

\* handle_login(request, db, username, password): the session afterwards
\* (None: not modified) and the status
handle_login(d, session, username, password) ==
    LET found == {u \in DOMAIN d.users : d.users[u].username = username}
        user == CHOOSE u \in found : TRUE
    IN IF found = {} THEN [session |-> NoneVal, status |-> 200]
       ELSE IF ~verify_password(password, d.users[user].password_hash)
       THEN [session |-> NoneVal, status |-> 200]
       ELSE [session |-> Put(session, "user_id", user), status |-> 303]

InitAuth ==
    /\ index = EmptyIndex
    /\ index_file = EmptyIndex
    /\ last = [op |-> "none"]
    /\ InitLLMVars
    /\ InitAppVars

Login(session_id, username, password) ==
    LET r == handle_login(db, RequestSession(sessions, session_id), username, password)
    IN /\ session_id \in DOMAIN sessions \/ Cardinality(DOMAIN sessions) < MaxSessions
       /\ sessions' = IF r.status = 303
                      THEN StoreSession(sessions, session_id, r.session)
                      ELSE sessions
       /\ last' = [op |-> "handle_login", session_id |-> session_id,
                   status |-> r.status]
       /\ UNCHANGED <<idxVars, llmVars, db, uploads, analyzer_ok, svcVars>>

\* dispatch, before call_next: request.state.user, the id of the User row
\* that session["user_id"] names, or None
RequestUser(store, d, session_id) ==
    LET session == RequestSession(store, session_id)
    IN IF "user_id" \in DOMAIN session
          /\ UuidParse(session["user_id"]) \in DOMAIN d.users
       THEN UuidParse(session["user_id"]) ELSE NoneVal

\* login_required without the test of request.state.user
login_required_open(user) == [status |-> 200, handler_ran |-> TRUE]

\* login_required(func): the redirect to /login, or the handler run
login_required(user) ==
    IF user = NoneVal THEN [status |-> 302, handler_ran |-> FALSE]
    ELSE [status |-> 200, handler_ran |-> TRUE]

\* clear_session that leaves the session as it is
clear_session_kept(session) == session

\* clear_session(request): request.state.session.clear()
clear_session(session) == <<>>

\* logout(request): clear_session, and the middleware stores the session
Logout(session_id) ==
    /\ session_id \in DOMAIN sessions \/ Cardinality(DOMAIN sessions) < MaxSessions
    /\ sessions' = StoreSession(sessions, session_id,
                                clear_session(RequestSession(sessions, session_id)))
    /\ last' = [op |-> "logout", session_id |-> session_id, status |-> 303,
                user_before |-> RequestUser(sessions, db, session_id)]
    /\ UNCHANGED <<idxVars, llmVars, db, uploads, analyzer_ok, svcVars>>

\* a request to a page route wrapped in login_required (dashboard)
PageRequest(session_id) ==
    LET r == login_required(RequestUser(sessions, db, session_id))
    IN /\ last' = [op |-> "page", session_id |-> session_id,
                   status |-> r.status, handler_ran |-> r.handler_ran]
       /\ UNCHANGED <<idxVars, llmVars, appVars, svcVars>>

\* a request to a route that depends on get_current_active_user
ApiRequest(session_id) ==
    LET session == RequestSession(sessions, session_id)
        r == get_current_active_user(db, get_current_user(db, session))
    IN /\ last' = [op |-> "api", session_id |-> session_id, session |-> session,
                   status |-> r.status, current_user |-> r.user]
       /\ UNCHANGED <<idxVars, llmVars, appVars, svcVars>>

\* The tables of models.py below users, other than files: a row is its
\* table, its id and the id its foreign key holds.  ParentTable is the
\* table that the foreign key of each table refers to.
ParentTable ==
    [documents |-> "users", chunks |-> "documents", roadmaps |-> "users",
     steps |-> "roadmaps", resources |-> "steps", notifications |-> "users"]
RowUuids == <<"r1", "r2", "r3", "r4", "r5">>

\* a cascade that stops at the rows referring to the deleted ones
CascadeOneLevel(rows, gone) == {r \in rows : r.parent \in gone}

\* the rows that go with the deleted ids: cascade="all, delete-orphan" on
\* each relationship and ondelete="CASCADE" on each foreign key
RECURSIVE Cascade(_, _)
Cascade(rows, gone) ==
    LET next == {r \in rows : r.parent \in gone}
    IN IF next = {} THEN {}
       ELSE next \cup Cascade(rows \ next, {r.id : r \in next})

\* db.add(Table(<foreign key>=parent)); db.commit(): the foreign key must
\* name a row of the parent table
OrmAdd(table, parent) ==
    LET parents == IF ParentTable[table] = "users" THEN DOMAIN db.users
                   ELSE {r.id : r \in {x \in db.rows : x.table = ParentTable[table]}}
        ok == parent \in parents
        row == [table |-> table, id |-> RowUuids[db.rows_made + 1], parent |-> parent]
    IN /\ db.rows_made < MaxRows
       /\ db' = IF ok THEN [db EXCEPT !.rows = @ \cup {row}, !.rows_made = @ + 1]
                ELSE db
       /\ last' = [op |-> "orm_add", table |-> table,
                   ret |-> IF ok THEN "committed" ELSE "IntegrityError"]
       /\ UNCHANGED <<idxVars, llmVars, uploads, analyzer_ok, sessions, svcVars>>

\* db.delete(row); db.commit()
OrmDelete(id) ==
    /\ db' = [db EXCEPT !.rows = {r \in @ : r.id # id} \ Cascade(@, {id})]
    /\ last' = [op |-> "orm_delete", id |-> id,
                cascaded |-> {r.table : r \in Cascade(db.rows, {id})}]
    /\ UNCHANGED <<idxVars, llmVars, uploads, analyzer_ok, sessions, svcVars>>

\* RoadmapInputValidator.is_valid_learning_query(query), its first result.
\* A goal is a text of words and whitespace: "learn" is one of the
\* learning keywords, "hello" a greeting, "123" a number.
is_valid_learning_query(query) ==
    LET words == Split(Strip(query))
    IN IF words = <<>> THEN FALSE
       ELSE IF Len(words) = 1 /\ Lower(words[1]) \in {"hello", "123"} THEN FALSE
       ELSE IF (\A i \in DOMAIN words : Lower(words[i]) # "learn") /\ Len(words) > 4
       THEN FALSE
       ELSE TRUE

\* get_learning_roadmap(request, db, current_user) with
\* RoadmapService.generate_learning_roadmap and _parse_and_save_roadmap.
\* llm is what call_llm does: "fail" (generate_content raises after its
\* attempts), "empty" (it returns ""), "prose" (a text that is not JSON),
\* "json_list" (JSON, not an object) or "json_object".
GetLearningRoadmap(user_id, goal, llm) ==
    /\ db.rows_made < MaxRows
    /\ LET RoadmapColumns == {"id", "user_id", "title", "content", "created_at"}
           RoadmapKwargs == {"user_id", "topic", "exp_lvl", "specific_goals", "timeline"}
           raised == IF ~is_valid_learning_query(goal) THEN "ValueError"
                     ELSE IF llm = "fail" THEN "Exception"
                     ELSE IF llm = "empty" THEN "ConnectionError"
                     ELSE IF llm = "prose" THEN "ValueError"
                     ELSE IF llm = "json_list" THEN "AttributeError"
                     ELSE IF ~(RoadmapKwargs \subseteq RoadmapColumns) THEN "TypeError"
                     ELSE "none"
           row == [table |-> "roadmaps", id |-> RowUuids[db.rows_made + 1],
                   parent |-> user_id]
       IN /\ db' = IF raised = "none"
                   THEN [db EXCEPT !.rows = @ \cup {row}, !.rows_made = @ + 1]
                   ELSE db
          /\ last' = [op |-> "get_learning_roadmap",
                      valid |-> is_valid_learning_query(goal), llm |-> llm,
                      status |-> IF raised = "none" THEN 200
                                 ELSE IF raised = "ValueError" THEN 400
                                 ELSE IF raised = "ConnectionError" THEN 503
                                 ELSE 500,
                      rows_before |-> db.rows]
    /\ UNCHANGED <<idxVars, llmVars, uploads, analyzer_ok, sessions, svcVars>>

\* the users table changed from outside the application: no handler writes
\* is_active or deletes a User; a deleted User takes its files along
DbDeactivateUser(user_id) ==
    /\ db.users[user_id].is_active
    /\ db' = [db EXCEPT !.users[user_id].is_active = FALSE]
    /\ last' = [op |-> "deactivate", user_id |-> user_id]
    /\ UNCHANGED <<idxVars, llmVars, uploads, analyzer_ok, sessions, svcVars>>

DbDeleteUser(user_id) ==
    /\ db' = [db EXCEPT
                !.users = Drop(@, {user_id}),
                !.files = Drop(@, {f \in DOMAIN @ : @[f].user_id = user_id}),
                !.rows = @ \ Cascade(@, {user_id})]
    /\ last' = [op |-> "delete_user", user_id |-> user_id,
                cascaded |-> {r.table : r \in Cascade(db.rows, {user_id})}]
    /\ UNCHANGED <<idxVars, llmVars, uploads, analyzer_ok, sessions, svcVars>>

NextAuth ==
    \/ \E u \in Usernames, e \in Emails, c \in Passwords : Signup(u, e, "pw1", c)
    \/ \E s \in Cookies, u \in Usernames, p \in Passwords : Login(s, u, p)
    \/ \E s \in Cookies : Logout(s)
    \/ \E s \in Cookies : ApiRequest(s)
    \/ \E s \in Cookies : PageRequest(s)
    \/ \E u \in DOMAIN db.users : DbDeactivateUser(u)
    \/ \E u \in DOMAIN db.users : DbDeleteUser(u)

SpecAuth == InitAuth /\ [][NextAuth]_vars

(***************************************************************************)
(* Claims about the protected routes.                                      *)
(***************************************************************************)
\* the session dicts a request may come with
SessionProbes ==
    {<<>>} \cup {[k \in {"user_id"} |-> t] : t \in {"", "junk", "u1", "u2", "u3", "{u1}"}}

\* the session holds the user_id of an existing, active user
HoldsActiveUser(session) ==
    /\ "user_id" \in DOMAIN session
    /\ UuidParse(session["user_id"]) \in DOMAIN db.users
    /\ db.users[UuidParse(session["user_id"])].is_active

\* the session holds the user_id of an existing, inactive user
HoldsInactiveUser(session) ==
    /\ "user_id" \in DOMAIN session
    /\ UuidParse(session["user_id"]) \in DOMAIN db.users
    /\ ~db.users[UuidParse(session["user_id"])].is_active

\* the answer of a protected route to a request with this session is as C10 says
AnsweredAsClaimed(session, r) ==
    /\ r.status = 200 <=> HoldsActiveUser(session)
    /\ r.status = 200 => r.user = UuidParse(session["user_id"])
    /\ r.status = 403 <=> HoldsInactiveUser(session)
    /\ r.status = 401 <=> ~HoldsActiveUser(session) /\ ~HoldsInactiveUser(session)

\* C10: a protected route runs its handler only for a request whose session
\* holds the user_id of an existing, active user, and for that user; with
\* no user_id, a malformed one or one of no existing user the answer is
\* 401, with the user_id of an inactive user it is 403.  This holds of the
\* last request made and of every session a request may come with.
C10_ProtectedRoutes ==
    /\ \A session \in SessionProbes :
          AnsweredAsClaimed(session,
              get_current_active_user(db, get_current_user(db, session)))
    /\ last.op = "api" =>
          AnsweredAsClaimed(last.session,
              [status |-> last.status, user |-> last.current_user])

\* a logged-in user whose row was made inactive got 403
C10_Witness ==
    /\ last.op = "api"
    /\ last.status = 403
    /\ HoldsInactiveUser(last.session)

(***************************************************************************)
(* Claims about the page routes and logout.                                *)
(***************************************************************************)
\* the cookie is one the middleware maps to a session whose user_id names a
\* User row still in the database
MapsToPresentUser(session_id) ==
    /\ session_id \in DOMAIN sessions
    /\ "user_id" \in DOMAIN sessions[session_id]
    /\ \E u \in DOMAIN db.users : sessions[session_id]["user_id"] = u

\* C11: a page route wrapped in login_required runs its handler only for a
\* request whose session_id cookie the middleware maps to a session whose
\* user_id names a user still in the database; every other request is
\* answered with the 302 redirect and the handler does not run.
C11_LoginRequired ==
    /\ \A s \in Cookies :
          LET r == login_required(RequestUser(sessions, db, s))
          IN /\ r.handler_ran <=> MapsToPresentUser(s)
             /\ ~r.handler_ran <=> r.status = 302
    /\ last.op = "page" =>
          /\ last.handler_ran <=> MapsToPresentUser(last.session_id)
          /\ ~last.handler_ran <=> last.status = 302

\* a page was asked for with the cookie of a session whose user is gone from
\* the database, and the answer was the redirect
C11_Witness ==
    /\ last.op = "page"
    /\ last.session_id \in DOMAIN sessions
    /\ "user_id" \in DOMAIN sessions[last.session_id]
    /\ last.status = 302
    /\ ~last.handler_ran

\* the step is a successful login presenting the cookie s
LoginOn(s) ==
    /\ last'.op = "handle_login"
    /\ last'.session_id = s
    /\ last'.status = 303

\* C12: once logout was processed for a request presenting the cookie s, a
\* request presenting s is unauthenticated (request.state.user is None and
\* login_required redirects), and a cookie that is unauthenticated stays so
\* in every step that is not a successful login on that session.
C12_LogoutEndsSession ==
    /\ [](last.op = "logout" =>
            /\ RequestUser(sessions, db, last.session_id) = NoneVal
            /\ login_required(RequestUser(sessions, db, last.session_id)).status = 302)
    /\ [][\A s \in Cookies :
            (RequestUser(sessions, db, s) = NoneVal /\ ~LoginOn(s))
            => RequestUser(sessions', db', s) = NoneVal]_vars

\* a logged-in session was logged out, and its cookie is still presented
C12_Witness ==
    /\ last.op = "logout"
    /\ last.user_before # NoneVal
    /\ last.session_id \in DOMAIN sessions

(***************************************************************************)
(* Rows created and deleted through the ORM.                               *)
(***************************************************************************)
NextOrm ==
    \/ \E u \in Usernames : Signup(u, EmailOf(u), "pw1", "pw1")
    \/ \E u \in DOMAIN db.users :
          db.files_made + db.rows_made < MaxRows /\ UploadDocument(u, "a.txt")
    \/ \E t \in DOMAIN ParentTable,
          p \in DOMAIN db.users \cup {r.id : r \in db.rows} \cup {"u4"} :
          db.files_made + db.rows_made < MaxRows /\ OrmAdd(t, p)
    \/ \E r \in db.rows : OrmDelete(r.id)
    \/ \E u \in DOMAIN db.users : DbDeleteUser(u)

SpecOrm == InitAuth /\ [][NextOrm]_vars

\* C13: no row refers to a parent row that is gone: each File and each row
\* of documents, roadmaps and notifications has its User, each Chunk its
\* Document, each Step its Roadmap, each Resource its Step; the delete of a
\* User or of a Roadmap left none of the rows below it.
C13_NoOrphans ==
    /\ \A f \in DOMAIN db.files : db.files[f].user_id \in DOMAIN db.users
    /\ \A r \in db.rows :
          IF ParentTable[r.table] = "users" THEN r.parent \in DOMAIN db.users
          ELSE \E p \in db.rows : p.id = r.parent /\ p.table = ParentTable[r.table]
    /\ last.op = "delete_user" =>
          /\ \A f \in DOMAIN db.files : db.files[f].user_id # last.user_id
          /\ \A r \in db.rows : r.parent # last.user_id
    /\ last.op = "orm_delete" => \A r \in db.rows : r.parent # last.id

\* a User was deleted who had a Roadmap with a Step with a Resource
C13_Witness ==
    /\ last.op = "delete_user"
    /\ {"roadmaps", "steps", "resources"} \subseteq last.cascaded

(***************************************************************************)
(* Claims about the document endpoints.                                    *)
(***************************************************************************)
\* C14: DELETE /ai/documents/{document_id} for an existing document of the
\* current user deletes the File record and answers with a successful
\* DeletionResponse (status 200).
C14_DeleteConfirms ==
    (last.op = "delete_analyzed_document" /\ last.found)
    => /\ last.status = 200
       /\ UuidParse(last.document_id) \notin DOMAIN db.files

\* C15: the details, delete and chat endpoints answer a request for a
\* document that does not exist or is not the current user's with 404, and
\* leave the File rows and the index as they were.
C15_NotFoundIs404 ==
    (/\ last.op \in {"get_document_details", "delete_analyzed_document", "chat_route"}
     /\ ~last.found)
    => /\ last.status = 404
       /\ DOMAIN db.files = last.files_before
       /\ index = last.index_before

\* The roadmap endpoint beside the rows it would write: users sign up, rows
\* exist from before, and the LLM may do each thing call_llm can do.
NextRoadmap ==
    \/ \E u \in Usernames : Signup(u, EmailOf(u), "pw1", "pw1")
    \/ \E t \in {"roadmaps", "steps"}, p \in DOMAIN db.users \cup {r.id : r \in db.rows} :
          db.rows_made < MaxRows /\ OrmAdd(t, p)
    \/ \E u \in DOMAIN db.users,
          g \in {<<" ">>, <<"123">>, <<"learn", " ", "ox">>, <<"cat", " ", "dog">>,
                 <<"ox", " ", "cat", " ", "dog", " ", "fish", " ", "ox">>},
          l \in {"fail", "empty", "prose", "json_list", "json_object"} :
          GetLearningRoadmap(u, g, l)

SpecRoadmap == InitAuth /\ [][NextRoadmap]_vars

\* C16: POST /ai/roadmap/ answers 400 when the validator rejects the goal
\* or the LLM output is not parseable JSON, and 503 when the LLM yields no
\* response (the call fails, or gives nothing); in each of these cases no
\* Roadmap, Step or Resource row is persisted.
C16_RoadmapFailsCleanly ==
    last.op = "get_learning_roadmap" =>
        /\ ~last.valid => last.status = 400
        /\ (last.valid /\ last.llm = "prose") => last.status = 400
        /\ (last.valid /\ last.llm \in {"fail", "empty"}) => last.status = 503
        /\ (~last.valid \/ last.llm \in {"fail", "empty", "prose"})
              => db.rows = last.rows_before

(***************************************************************************)
(* The token API (app/): registration, token login and the Google OAuth    *)
(* flow.  Usernames, emails and passwords are sequences of characters.     *)
(***************************************************************************)
WebUserIds == <<"w1", "w2", "w3", "w4">>
\* secrets.token_urlsafe(16): no value is drawn twice
StateTokens == <<"st1", "st2", "st3", "st4">>

\* str.lower()
StrLower(v) == [i \in DOMAIN v |-> IF v[i] = "A" THEN "a" ELSE v[i]]

\* UserCreate.validate_username(v): the stored username, or a ValueError
validate_username(v) ==
    LET bare == SelectSeq(v, LAMBDA c : c \notin {"_", "-"})
        isalnum == bare # <<>> /\ \A i \in DOMAIN bare : bare[i] \in {"a", "A", "b", "c", "1"}
    IN IF Len(v) < 3 \/ Len(v) > 20 \/ ~isalnum
       THEN [ok |-> FALSE, value |-> v]
       ELSE [ok |-> TRUE, value |-> StrLower(v)]

\* UserCreate.validate_password(v)
validate_password(v) == ~(Len(v) < 8 \/ Len(v) > 128)

\* CRUDUser.get_by_email / get_by_username / get_by_google_id: .first()
get_by(users, column, value) ==
    LET hits == {id \in DOMAIN users : users[id][column] = value}
    IN IF hits = {} THEN NoneVal ELSE CHOOSE id \in hits : TRUE

\* CRUDUser.create(db, obj_in), on the fields the endpoints read
create(w, email, username, password, is_active, google_id) ==
    LET id == WebUserIds[w.users_made + 1]
    IN [w EXCEPT !.users = Put(@, id, [email |-> email, username |-> username,
                                     hashed_password |-> get_password_hash(password),
                                     is_active |-> is_active, google_id |-> google_id]),
                 !.users_made = @ + 1]

\* register(user_in, db); 422 is the request model's validation error
register(w, email, username, password, is_active) ==
    LET name == validate_username(username)
    IN IF ~name.ok \/ ~validate_password(password) THEN [status |-> 422, web |-> w]
       ELSE IF get_by(w.users, "email", email) # NoneVal THEN [status |-> 400, web |-> w]
       ELSE IF get_by(w.users, "username", name.value) # NoneVal
       THEN [status |-> 400, web |-> w]
       ELSE IF Len(password) < 8 THEN [status |-> 400, web |-> w]
       ELSE [status |-> 200,
             web |-> create(w, email, name.value, password, is_active, NoneVal)]

\* CRUDUser.authenticate and CRUDUser.authenticate_by_username
authenticate(users, column, value, password) ==
    LET user == get_by(users, column, value)
    IN IF user = NoneVal THEN NoneVal
       ELSE IF ~verify_password(password, users[user].hashed_password) THEN NoneVal
       ELSE user

\* login_for_access_token(db, form_data); subject is what the token is made for
login_for_access_token(users, username, password) ==
    LET by_email == authenticate(users, "email", username, password)
        user == IF by_email # NoneVal THEN by_email
                ELSE authenticate(users, "username", username, password)
    IN IF user = NoneVal THEN [status |-> 401, token_type |-> NoneVal, subject |-> NoneVal]
       ELSE IF ~users[user].is_active
       THEN [status |-> 400, token_type |-> NoneVal, subject |-> NoneVal]
       ELSE [status |-> 200, token_type |-> "bearer", subject |-> user]

Register(email, username, password, is_active) ==
    LET r == register(web, email, username, password, is_active)
    IN /\ web.users_made < MaxUsers
       /\ web' = r.web
       /\ last' = [op |-> "register", status |-> r.status, email |-> email,
                   username |-> username, password |-> password,
                   is_active |-> is_active]
       /\ UNCHANGED <<idxVars, llmVars, appVars, vector_store, requests>>

LoginForAccessToken(username, password) ==
    LET r == login_for_access_token(web.users, username, password)
    IN /\ last' = [op |-> "login_for_access_token", status |-> r.status,
                   token_type |-> r.token_type, subject |-> r.subject]
       /\ UNCHANGED <<idxVars, llmVars, appVars, svcVars>>

\* google_login(request); redirect_ok is whether authorize_redirect returns
GoogleLogin(b, redirect_ok) ==
    LET state == StateTokens[web.states_made + 1]
    IN /\ web.states_made < MaxStates
       /\ web' = [web EXCEPT !.session[b].google_oauth_state = state,
                             !.session[b].google_oauth_nonce = "nonce",
                             !.states_made = @ + 1]
       /\ last' = [op |-> "google_login", browser |-> b, state |-> state,
                   status |-> IF redirect_ok THEN 302 ELSE 500]
       /\ UNCHANGED <<idxVars, llmVars, appVars, vector_store, requests>>

\* google_callback(request, db).  exchange is what Google and the OAuth
\* client give once asked for the token: "error", or the user's profile
\* (an empty email is a profile without one).
GoogleCallback(b, received_state, exchange) ==
    LET stored_state == web.session[b].google_oauth_state
        popped == [web EXCEPT !.session[b].google_oauth_state = NoneVal]
        exchanged == received_state = stored_state
        failed == exchange.error \/ exchange.email = <<>>
        nonce_popped == IF exchange.error THEN popped
                        ELSE [popped EXCEPT !.session[b].google_oauth_nonce = NoneVal]
        found == get_by(web.users, "email", exchange.email)
        name == validate_username(exchange.name)
        taken == get_by(web.users, "username", name.value) # NoneVal
        made == IF found # NoneVal
                THEN IF nonce_popped.users[found].google_id = NoneVal
                     THEN [nonce_popped EXCEPT !.users[found].google_id = exchange.sub]
                     ELSE nonce_popped
                ELSE create(nonce_popped, exchange.email, name.value,
                            <<"token_hex">>, TRUE, exchange.sub)
        user == IF found # NoneVal THEN found ELSE WebUserIds[web.users_made + 1]
        status == IF ~exchanged \/ failed THEN 400
                  ELSE IF found = NoneVal /\ (~name.ok \/ taken) THEN 500
                  ELSE 302
    IN /\ (status = 302 /\ found = NoneVal) => web.users_made < MaxUsers
       /\ web' = IF ~exchanged THEN popped
                 ELSE IF status # 302 THEN nonce_popped
                 ELSE [made EXCEPT !.session[b].access_token = <<"jwt", user>>,
                                   !.session[b].user_id = user]
       /\ last' = [op |-> "google_callback", browser |-> b,
                   received_state |-> received_state, stored_state |-> stored_state,
                   exchanged |-> exchanged, status |-> status]
       /\ UNCHANGED <<idxVars, llmVars, appVars, vector_store, requests>>

\* logout(request): request.session.clear()
WebLogout(b) ==
    /\ web' = [web EXCEPT !.session[b] = EmptySession]
    /\ last' = [op |-> "web_logout", browser |-> b, status |-> 200]
    /\ UNCHANGED <<idxVars, llmVars, appVars, vector_store, requests>>

NextOAuth ==
    \/ \E b \in Browsers, ok \in BOOLEAN : GoogleLogin(b, ok)
    \/ \E b \in Browsers,
          st \in {NoneVal, "forged"} \cup {StateTokens[i] : i \in 1..web.states_made},
          x \in {[error |-> TRUE, email |-> <<>>, name |-> <<>>, sub |-> NoneVal],
                 [error |-> FALSE, email |-> <<>>, name |-> <<"a", "b", "c">>, sub |-> "g1"],
                 [error |-> FALSE, email |-> <<"a", "@", "x">>, name |-> <<"a", "b", "c">>,
                  sub |-> "g1"],
                 [error |-> FALSE, email |-> <<"b", "@", "x">>, name |-> <<"a", " ", "c">>,
                  sub |-> "g2"]} :
          GoogleCallback(b, st, x)
    \/ \E b \in Browsers : WebLogout(b)

SpecOAuth == InitAuth /\ [][NextOAuth]_vars

NextTokens ==
    \/ \E e \in {<<"a", "@", "x">>, <<"b", "@", "x">>},
          u \in {<<"a", "b", "c">>, <<"A", "b", "c">>, <<"a", "_", "1">>, <<"a", "b">>,
                 <<"_", "-", "_">>, <<"a", " ", "c">>},
          p \in {<<"p", "a", "s", "s", "w", "o", "r", "d">>, <<"p", "w">>},
          a \in BOOLEAN :
          Register(e, u, p, a)
    \/ \E n \in {<<"a", "@", "x">>, <<"b", "@", "x">>, <<"a", "b", "c">>, <<"A", "b", "c">>,
                 <<"a", "_", "1">>},
          p \in {<<"p", "a", "s", "s", "w", "o", "r", "d">>, <<"p", "w">>} :
          LoginForAccessToken(n, p)

SpecTokens == InitAuth /\ [][NextTokens]_vars

\* C17: google_callback goes on to the token exchange only when the session
\* holds a state stored by an earlier google_login and the 'state' query
\* parameter equals it; every other callback is answered 400; and the check
\* consumes the stored state, so that a replay of the same state is rejected.
C17_StateChecked ==
    last.op = "google_callback" =>
        /\ last.exchanged =>
              (last.stored_state # NoneVal /\ last.received_state = last.stored_state)
        /\ ~last.exchanged => last.status = 400
        /\ web.session[last.browser].google_oauth_state = NoneVal

\* C18: after a successful registration with email e, username u and
\* password p of an active user, the token login with u and p, and with e
\* and p, answers 200 with a bearer token made for that user.
C18_LoginByEmailOrUsername ==
    (last.op = "register" /\ last.status = 200 /\ last.is_active) =>
        LET by_name == login_for_access_token(web.users, last.username, last.password)
            by_email == login_for_access_token(web.users, last.email, last.password)
        IN /\ by_name.status = 200 /\ by_name.token_type = "bearer"
           /\ by_email.status = 200 /\ by_email.token_type = "bearer"
           /\ by_name.subject = by_email.subject

(***************************************************************************)
(* VectorStore (ai_services/vector_store.py).  A chunk of the context file *)
(* is the slice text[from:to]; a roadmap chunk is "Topic: title\n          *)
(* description".  Embeddings are vectors of two non-negative integers.     *)
(***************************************************************************)
\* SentenceTransformer.encode, one text
encode(text) ==
    IF text.src = "query" THEN text.vec
    ELSE IF text.src = "roadmap" THEN IF text.title = "t1" THEN <<0, 1>> ELSE <<1, 1>>
    ELSE IF text.from = 0 THEN <<1, 0>>
    ELSE <<1, 1>>

\* cosine_similarity(a, b), as 4 cos^2: the order of cos on such vectors
cosine_similarity(a, b) ==
    LET dot == a[1] * b[1] + a[2] * b[2]
        na == a[1] * a[1] + a[2] * a[2]
        nb == b[1] * b[1] + b[2] * b[2]
    IN (4 * dot * dot) \div (na * nb)

\* save_index(): pickle.dump of chunks and embeddings
save_index(store) ==
    [store EXCEPT !.file = [exists |-> TRUE, chunks |-> store.chunks,
                            embeddings |-> store.embeddings]]

\* load_index()
load_index(store) ==
    IF store.file.exists
    THEN [store EXCEPT !.chunks = store.file.chunks,
                       !.embeddings = store.file.embeddings, !.loaded = TRUE]
    ELSE store

\* add_chunks(new_chunks)
add_chunks(store, new_chunks) ==
    IF new_chunks = <<>> THEN store
    ELSE LET new_embeddings == [i \in DOMAIN new_chunks |-> encode(new_chunks[i])]
         IN save_index([store EXCEPT
                !.embeddings = IF Len(@) = 0 THEN new_embeddings ELSE @ \o new_embeddings,
                !.chunks = @ \o new_chunks])

\* the while loop of build_index_from_text
RECURSIVE TextChunks(_, _, _, _)
TextChunks(len, size, overlap, start) ==
    IF start < len
    THEN <<[src |-> "context", from |-> start,
            to |-> IF start + size < len THEN start + size ELSE len]>>
         \o TextChunks(len, size, overlap, start + size - overlap)
    ELSE <<>>

\* build_index_from_text(text, chunk_size=512, overlap=50), text given by len(text)
build_index_from_text(store, len) ==
    IF len = 0 THEN store ELSE add_chunks(store, TextChunks(len, 512, 50, 0))

\* load_and_index_roadmaps(roadmaps_dir), items being the entries of its JSON files
load_and_index_roadmaps(store, items) ==
    LET kept == SelectSeq(items, LAMBDA v : v.title # "" /\ v.description # "")
    IN IF items = <<>> THEN store
       ELSE add_chunks(store, [i \in DOMAIN kept |->
                [src |-> "roadmap", title |-> kept[i].title,
                 description |-> kept[i].description]])

\* the mutant of initialize_learning_context: no check that chunks exist
initialize_learning_context_always(store) ==
    LET with_text == IF store.context.exists
                     THEN build_index_from_text(store, store.context.len)
                     ELSE store
    IN IF store.roadmaps.isdir
       THEN load_and_index_roadmaps(with_text, store.roadmaps.items)
       ELSE with_text

\* initialize_learning_context()
initialize_learning_context(store) ==
    IF store.chunks # <<>> THEN store
    ELSE LET with_text == IF store.context.exists
                          THEN build_index_from_text(store, store.context.len)
                          ELSE store
         IN IF store.roadmaps.isdir
            THEN load_and_index_roadmaps(with_text, store.roadmaps.items)
            ELSE with_text

\* np.argsort(similarities): the orders of the indices by ascending value
\* (the sort is not stable, so equal values come in any order)
ArgSorts(similarities) ==
    LET n == Len(similarities)
    IN {order \in [1..n -> 1..n] :
          /\ \A i, j \in 1..n : i # j => order[i] # order[j]
          /\ \A i, j \in 1..n : i < j => similarities[order[i]] <= similarities[order[j]]}

\* seq[start:]
SliceFrom(seq, start) ==
    LET n == Len(seq)
        first == IF start < 0 THEN (IF n + start < 0 THEN 0 ELSE n + start)
                 ELSE IF start > n THEN n ELSE start
    IN SubSeq(seq, first + 1, n)

\* seq[::-1]
Reversed(seq) == [i \in DOMAIN seq |-> seq[Len(seq) + 1 - i]]

Similarities(store, query) ==
    [i \in DOMAIN store.embeddings |-> cosine_similarity(encode(query), store.embeddings[i])]

\* the mutant of query_chunks: the [::-1] is left out
query_chunks_ascending(store, query, top_k, order) ==
    IF store.chunks = <<>> \/ Len(store.embeddings) = 0 THEN <<>>
    ELSE LET num_chunks == Len(store.chunks)
             k == IF top_k < num_chunks THEN top_k ELSE num_chunks
         IN IF k = 0 THEN <<>> ELSE SliceFrom(order, -k)

\* query_chunks(query, top_k): top_indices, order being what argsort gave
query_chunks(store, query, top_k, order) ==
    IF store.chunks = <<>> \/ Len(store.embeddings) = 0 THEN <<>>
    ELSE LET num_chunks == Len(store.chunks)
             k == IF top_k < num_chunks THEN top_k ELSE num_chunks
         IN IF k = 0 THEN <<>> ELSE Reversed(SliceFrom(order, -k))

InitVectors ==
    /\ index = EmptyIndex
    /\ index_file = EmptyIndex
    /\ last = [op |-> "none"]
    /\ InitLLMVars
    /\ db = EmptyDb /\ uploads = {} /\ analyzer_ok = TRUE /\ sessions = <<>>
    /\ requests = NoRequests
    /\ web = EmptyWeb
    /\ \E c \in {[exists |-> FALSE, len |-> 0], [exists |-> TRUE, len |-> 0],
                 [exists |-> TRUE, len |-> 300], [exists |-> TRUE, len |-> 1000]},
          r \in {[isdir |-> FALSE, items |-> <<>>], [isdir |-> TRUE, items |-> <<>>],
                 [isdir |-> TRUE,
                  items |-> <<[title |-> "t1", description |-> "d1"],
                              [title |-> "t2", description |-> ""],
                              [title |-> "t3", description |-> "d3"]>>]} :
          vector_store = [EmptyStore EXCEPT !.context = c, !.roadmaps = r]

InitializeLearningContext ==
    /\ vector_store' = initialize_learning_context(vector_store)
    /\ last' = [op |-> "initialize_learning_context",
                populated |-> vector_store.chunks # <<>>]
    /\ UNCHANGED <<idxVars, llmVars, appVars, web, requests>>

\* a restart of the process: VectorStore() starts empty and loads the file
RestartVectorStore ==
    /\ vector_store' = load_index([vector_store EXCEPT !.chunks = <<>>,
                                                       !.embeddings = <<>>,
                                                       !.loaded = FALSE])
    /\ last' = [op |-> "load_index"]
    /\ UNCHANGED <<idxVars, llmVars, appVars, web, requests>>

QueryChunks(query, top_k) ==
    \E order \in ArgSorts(Similarities(vector_store, query)) :
        /\ last' = [op |-> "query_chunks", top_k |-> top_k,
                    similarities |-> Similarities(vector_store, query),
                    top_indices |-> query_chunks(vector_store, query, top_k, order)]
        /\ UNCHANGED <<idxVars, llmVars, appVars, svcVars>>

NextVectors ==
    \/ InitializeLearningContext
    \/ RestartVectorStore
    \/ \E v \in {<<1, 0>>, <<0, 1>>, <<1, 1>>}, top_k \in -1..MaxTopK :
          QueryChunks([src |-> "query", vec |-> v], top_k)

SpecVectors == InitVectors /\ [][NextVectors]_vars

\* what one call of initialize_learning_context leaves in a new store
SingleCall == initialize_learning_context(
                  [vector_store EXCEPT !.chunks = <<>>, !.embeddings = <<>>]).chunks

\* the list returned by query_chunks is well chosen: k chunks, the most
\* similar first, and no chunk left out is more similar than one returned
TopChosen(k) ==
    LET sims == last.similarities
        top == last.top_indices
    IN /\ Len(top) = k
       /\ \A i, j \in DOMAIN top : i < j => sims[top[i]] >= sims[top[j]] /\ top[i] # top[j]
       /\ \A o \in DOMAIN sims : (\A i \in DOMAIN top : top[i] # o)
             => \A i \in DOMAIN top : sims[o] <= sims[top[i]]

\* C19 as stated: for every top_k, query_chunks returns nothing on an empty
\* index and otherwise exactly min(top_k, number of chunks) chunks, ordered
\* by non-increasing similarity, none less similar than a chunk left out.
C19_TopKForEveryTopK ==
    last.op = "query_chunks" =>
        LET n == Len(vector_store.chunks)
        IN IF n = 0 THEN last.top_indices = <<>>
           ELSE TopChosen(IF last.top_k < n THEN last.top_k ELSE n)

\* C19, amended: the same for every top_k that is not negative.
C19_TopK ==
    (last.op = "query_chunks" /\ last.top_k >= 0) =>
        LET n == Len(vector_store.chunks)
        IN IF n = 0 THEN last.top_indices = <<>>
           ELSE TopChosen(IF last.top_k < n THEN last.top_k ELSE n)

C19_Witness ==
    /\ last.op = "query_chunks"
    /\ last.top_k = 2
    /\ Len(vector_store.chunks) = 5
    /\ Len(last.top_indices) = 2
    /\ \E o \in DOMAIN last.similarities :
          last.similarities[o] < last.similarities[last.top_indices[2]]
    /\ last.similarities[last.top_indices[1]] > last.similarities[last.top_indices[2]]

\* C20: initialize_learning_context on a store that holds chunks changes
\* neither chunks nor embeddings, so that after any number of calls and
\* restarts the chunk list is the one a single call builds, nothing twice.
C20_InitializeOnce ==
    /\ [](vector_store.chunks \in {<<>>, SingleCall}
          /\ (last.op = "initialize_learning_context" =>
                 vector_store.chunks = SingleCall))
    /\ [][(last'.op = "initialize_learning_context" /\ vector_store.chunks # <<>>)
             => /\ vector_store'.chunks = vector_store.chunks
                /\ vector_store'.embeddings = vector_store.embeddings]_vars

C20_Witness ==
    /\ last.op = "initialize_learning_context"
    /\ last.populated
    /\ vector_store.loaded
    /\ Len(vector_store.chunks) = 5

(***************************************************************************)
(* The relevance score and the document filter of search_chunks.           *)
(***************************************************************************)
\* the lower-cased whitespace-separated words of a text that are longer than
\* 2 characters
LongWords(text) ==
    {Lower(text[i]) : i \in {j \in DOMAIN text : text[j] # " " /\ WordLen(text[j]) > 2}}

IndexedChunks == {index.chunks[i] : i \in 1..Len(index.chunks)}

\* C21: the score of a returned chunk is |Q \cap C| / |Q|, Q and C being the
\* long words of the query and of the chunk: it is above 0 and at most 1, a
\* chunk sharing no long word with the query is not returned, and a query
\* that is empty or has no long word returns the empty list.
C21_RelevanceScore ==
    last.op = "search_chunks" =>
        LET Q == LongWords(last.query)
            ret == last.ret
        IN /\ (last.query = <<>> \/ Q = {}) => ret = <<>>
           /\ \A i \in 1..Len(ret) : \E e \in IndexedChunks :
                LET C == LongWords(e.content)
                IN /\ e.chunk_id = ret[i].chunk_id
                   /\ ret[i].score.num * Cardinality(Q)
                         = Cardinality(Q \cap C) * ret[i].score.den
                   /\ 0 < ret[i].score.num
                   /\ ret[i].score.num <= ret[i].score.den
           /\ \A e \in IndexedChunks : Q \cap LongWords(e.content) = {} =>
                \A i \in 1..Len(ret) : ret[i].chunk_id # e.chunk_id

\* a search that returned a chunk with half of the query's words while a
\* chunk with none of them is in the index
C21_Witness ==
    /\ last.op = "search_chunks"
    /\ \E i \in 1..Len(last.ret) :
          last.ret[i].score.num = 1 /\ last.ret[i].score.den = 2
    /\ \E e \in IndexedChunks :
          LongWords(last.query) \cap LongWords(e.content) = {}

\* C22: search_chunks called with a document_id returns only entries of
\* that document, whatever the document_id and whatever else is indexed;
\* called without one it considers the chunks of every document.
C22_DocumentFilter ==
    last.op = "search_chunks" =>
        LET ret == last.ret
            sharing == {e \in IndexedChunks :
                          LongWords(last.query) \cap LongWords(e.content) # {}}
        IN /\ last.document_id # NoneVal =>
                \A i \in 1..Len(ret) : ret[i].document_id = last.document_id
           /\ (last.document_id = NoneVal /\ Cardinality(sharing) <= last.limit) =>
                \A e \in sharing : \E i \in 1..Len(ret) : ret[i].chunk_id = e.chunk_id

(***************************************************************************)
(* POST /signup served by several worker processes on one database.  A     *)
(* handler runs without interruption inside its process; between its       *)
(* statements on the database the other processes run theirs.              *)
(***************************************************************************)
\* the request arrives: step 1 of handle_signup, the passwords' comparison
SignupStart(w, username, email, password, confirm_password) ==
    /\ requests[w].pc \in {"idle", "done"}
    /\ db.users_made < MaxUsers
    /\ requests' = [requests EXCEPT ![w] =
          IF password # confirm_password
          THEN [pc |-> "done", username |-> username, email |-> email,
                password |-> password, response |-> "Passwords do not match"]
          ELSE [pc |-> "check_email", username |-> username, email |-> email,
                password |-> password, response |-> NoneVal]]
    /\ last' = [op |-> "handle_signup", worker |-> w, at |-> "start"]
    /\ UNCHANGED <<idxVars, llmVars, appVars, web, vector_store>>

\* db.query(User).filter(User.email == email).first()
SignupCheckEmail(w) ==
    /\ requests[w].pc = "check_email"
    /\ requests' = [requests EXCEPT ![w] =
          IF \E u \in DOMAIN db.users : db.users[u].email = requests[w].email
          THEN [@ EXCEPT !.pc = "done", !.response = "Email already registered"]
          ELSE [@ EXCEPT !.pc = "check_username"]]
    /\ last' = [op |-> "handle_signup", worker |-> w, at |-> "check_email"]
    /\ UNCHANGED <<idxVars, llmVars, appVars, web, vector_store>>

\* db.query(User).filter(User.username == username).first()
SignupCheckUsername(w) ==
    /\ requests[w].pc = "check_username"
    /\ requests' = [requests EXCEPT ![w] =
          IF \E u \in DOMAIN db.users : db.users[u].username = requests[w].username
          THEN [@ EXCEPT !.pc = "done", !.response = "Username already taken"]
          ELSE [@ EXCEPT !.pc = "commit"]]
    /\ last' = [op |-> "handle_signup", worker |-> w, at |-> "check_username"]
    /\ UNCHANGED <<idxVars, llmVars, appVars, web, vector_store>>

\* db.add(new_user); db.commit(): the INSERT fails on the unique columns of
\* User (IntegrityError, which no handler catches: get_db rolls back and
\* raises it again)
SignupCommit(w) ==
    LET r == requests[w]
        clash == \E u \in DOMAIN db.users :
                    db.users[u].email = r.email \/ db.users[u].username = r.username
        id == UserUuids[db.users_made + 1]
    IN /\ r.pc = "commit"
       /\ db' = IF clash THEN db
                ELSE [db EXCEPT !.users = Put(@, id,
                            [username |-> r.username, email |-> r.email,
                             password_hash |-> get_password_hash(r.password),
                             is_active |-> TRUE]),
                        !.users_made = @ + 1]
       /\ requests' = [requests EXCEPT ![w] =
             [@ EXCEPT !.pc = "done",
                       !.response = IF clash THEN "IntegrityError" ELSE "303 /login"]]
       /\ last' = [op |-> "handle_signup", worker |-> w, at |-> "commit"]
       /\ UNCHANGED <<idxVars, llmVars, uploads, analyzer_ok, sessions, web, vector_store>>

NextSignup ==
    \/ \E w \in {WorkerIds[i] : i \in 1..MaxWorkers}, u \in Usernames, e \in Emails,
          c \in Passwords :
          SignupStart(w, u, e, "pw1", c)
    \/ \E w \in {WorkerIds[i] : i \in 1..MaxWorkers} : SignupCheckEmail(w)
    \/ \E w \in {WorkerIds[i] : i \in 1..MaxWorkers} : SignupCheckUsername(w)
    \/ \E w \in {WorkerIds[i] : i \in 1..MaxWorkers} : SignupCommit(w)

SpecSignup == InitAuth /\ [][NextSignup]_vars

\* C23: after any interleaving of POST /signup requests no two User rows
\* share an email or a username, and a signup that finds its email or its
\* username taken is answered with the form error, never an unhandled error.
C23_UniqueUsers ==
    /\ \A a, b \in DOMAIN db.users :
          a # b => /\ db.users[a].email # db.users[b].email
                   /\ db.users[a].username # db.users[b].username
    /\ \A w \in DOMAIN requests :
          requests[w].pc = "done" =>
              requests[w].response \in {"Passwords do not match", "Email already registered",
                                        "Username already taken", "303 /login"}

====
